---------------------------- MODULE Spec2Model ----------------------------
(***************************************************************************)
(* Battle resolution engine of the text adventure: creature model          *)
(* (game/pokemon.py), roster and inventory (game/trainer.py) and the       *)
(* battle state machine (game/game_engine.py).                             *)
(*                                                                         *)
(* Four specifications share the variables:                                *)
(*   SpecCreature  - one creature driven through its public operations     *)
(*                   (take_damage, heal, gain_experience, level_up,        *)
(*                   evolve, Trainer.use_item) in any order;               *)
(*   Spec          - one call of GameEngine.start_battle, from the roster  *)
(*                   lookup to the post-battle bookkeeping;                *)
(*   SpecFault     - Spec with exceptions raised inside the try block of   *)
(*                   battle_loop;                                          *)
(*   SpecCatch     - one call of GameEngine.attempt_catch after a Victory  *)
(*                   over a wild creature.                                 *)
(***************************************************************************)
EXTENDS Integers, Sequences, FiniteSets, TLC

VARIABLES
    team,          \* Trainer.pokemon_team: sequence of creature records
    box,           \* Trainer.pokemon_box
    inventory,     \* Inventory.items in insertion order: <<[name, qty], ...>>
    stats,         \* Trainer.stats (the counters the engine touches)
    opp,           \* opponent_pokemon of start_battle
    is_wild,       \* is_wild argument of start_battle
    pc,            \* position of the control flow
    battle_turn,   \* local battle_turn of battle_loop (0 outside battle_loop)
    active,        \* battle_loop's local player_pokemon (index into team)
    start_active,  \* start_battle's local player_pokemon (index into team)
    result,        \* value returned by battle_loop / start_battle
    turn,          \* history of the loop iteration in progress
    award,         \* history of the experience awards of this battle
    last_op,       \* history of the last creature operation (SpecCreature)
    ops            \* number of creature operations applied (SpecCreature)

vars == <<team, box, inventory, stats, opp, is_wild, pc, battle_turn, active,
          start_active, result, turn, award, last_op, ops>>

-----------------------------------------------------------------------------
(* Bounds of the model *)

\* longest sequence of creature operations explored by SpecCreature
MaxOps == 4

-----------------------------------------------------------------------------
(* Program constants *)

max_level == 100
max_turns == 100
max_team_size == 6
default_iv == 15

Max(a, b) == IF a >= b THEN a ELSE b
Min(a, b) == IF a <= b THEN a ELSE b

-----------------------------------------------------------------------------
(* Static data tables *)

\* Pokemon.get_species_data: evo_level = 0 stands for "no level key",
\* evolves_to = "" for "no evolution entry".
species_data(s) ==
    CASE s = "Bulbasaur" ->
           [types |-> <<"Grass", "Poison">>, hp |-> 45, attack |-> 49,
            defense |-> 49, special_attack |-> 65, special_defense |-> 65,
            speed |-> 45, evo_level |-> 16, evolves_to |-> "Ivysaur"]
      [] s = "Charmander" ->
           [types |-> <<"Fire">>, hp |-> 39, attack |-> 52,
            defense |-> 43, special_attack |-> 60, special_defense |-> 50,
            speed |-> 65, evo_level |-> 16, evolves_to |-> "Charmeleon"]
      [] s = "Squirtle" ->
           [types |-> <<"Water">>, hp |-> 44, attack |-> 48,
            defense |-> 65, special_attack |-> 50, special_defense |-> 64,
            speed |-> 43, evo_level |-> 16, evolves_to |-> "Wartortle"]
      [] s = "Pikachu" ->
           [types |-> <<"Electric">>, hp |-> 35, attack |-> 55,
            defense |-> 40, special_attack |-> 50, special_defense |-> 50,
            speed |-> 90, evo_level |-> 0, evolves_to |-> "Raichu"]
      [] s = "Rattata" ->
           [types |-> <<"Normal">>, hp |-> 30, attack |-> 56,
            defense |-> 35, special_attack |-> 25, special_defense |-> 35,
            speed |-> 72, evo_level |-> 20, evolves_to |-> "Raticate"]
      [] s = "Caterpie" ->
           [types |-> <<"Bug">>, hp |-> 45, attack |-> 30,
            defense |-> 35, special_attack |-> 20, special_defense |-> 20,
            speed |-> 45, evo_level |-> 7, evolves_to |-> "Metapod"]
      [] s = "Pidgey" ->
           [types |-> <<"Normal", "Flying">>, hp |-> 40, attack |-> 45,
            defense |-> 40, special_attack |-> 35, special_defense |-> 35,
            speed |-> 56, evo_level |-> 18, evolves_to |-> "Pidgeotto"]
      [] OTHER ->
           [types |-> <<"Normal">>, hp |-> 50, attack |-> 50,
            defense |-> 50, special_attack |-> 50, special_defense |-> 50,
            speed |-> 50, evo_level |-> 0, evolves_to |-> ""]

\* The Move templates of Pokemon.get_initial_moves and
\* GameEngine.create_trainer_pokemon (unknown names get the default move).
move_database(m) ==
    CASE m = "Tackle"        -> [type |-> "Normal",   power |-> 40, accuracy |-> 100, max_pp |-> 35]
      [] m = "Growl"         -> [type |-> "Normal",   power |-> 0,  accuracy |-> 100, max_pp |-> 40]
      [] m = "Vine Whip"     -> [type |-> "Grass",    power |-> 45, accuracy |-> 100, max_pp |-> 25]
      [] m = "Ember"         -> [type |-> "Fire",     power |-> 40, accuracy |-> 100, max_pp |-> 25]
      [] m = "Water Gun"     -> [type |-> "Water",    power |-> 40, accuracy |-> 100, max_pp |-> 25]
      [] m = "Thunder Shock" -> [type |-> "Electric", power |-> 40, accuracy |-> 100, max_pp |-> 30]
      [] m = "Quick Attack"  -> [type |-> "Normal",   power |-> 40, accuracy |-> 100, max_pp |-> 30]
      [] m = "String Shot"   -> [type |-> "Bug",      power |-> 0,  accuracy |-> 95,  max_pp |-> 40]
      [] m = "Gust"          -> [type |-> "Flying",   power |-> 40, accuracy |-> 100, max_pp |-> 35]
      [] m = "Scratch"       -> [type |-> "Normal",   power |-> 40, accuracy |-> 100, max_pp |-> 35]
      [] m = "Tail Whip"     -> [type |-> "Normal",   power |-> 0,  accuracy |-> 100, max_pp |-> 30]
      [] m = "Defense Curl"  -> [type |-> "Normal",   power |-> 0,  accuracy |-> 100, max_pp |-> 40]
      [] OTHER               -> [type |-> "Normal",   power |-> 40, accuracy |-> 100, max_pp |-> 25]

\* species_moves of Pokemon.get_initial_moves
species_moves(s) ==
    CASE s = "Bulbasaur"  -> <<"Tackle", "Growl", "Vine Whip">>
      [] s = "Charmander" -> <<"Tackle", "Growl", "Ember">>
      [] s = "Squirtle"   -> <<"Tackle", "Water Gun">>
      [] s = "Pikachu"    -> <<"Thunder Shock", "Quick Attack">>
      [] s = "Rattata"    -> <<"Tackle", "Quick Attack">>
      [] s = "Caterpie"   -> <<"Tackle", "String Shot">>
      [] s = "Pidgey"     -> <<"Tackle", "Gust">>
      [] OTHER            -> <<"Tackle">>

\* Inventory.get_item_database: type of each item ("" for unknown names),
\* heal_amount (0 = no such key) and the revive flag.
item_database(i) ==
    CASE i = "Pokeball"     -> [type |-> "pokeball", heal_amount |-> 0,   revive |-> FALSE]
      [] i = "Great Ball"   -> [type |-> "pokeball", heal_amount |-> 0,   revive |-> FALSE]
      [] i = "Ultra Ball"   -> [type |-> "pokeball", heal_amount |-> 0,   revive |-> FALSE]
      [] i = "Master Ball"  -> [type |-> "pokeball", heal_amount |-> 0,   revive |-> FALSE]
      [] i = "Potion"       -> [type |-> "healing",  heal_amount |-> 20,  revive |-> FALSE]
      [] i = "Super Potion" -> [type |-> "healing",  heal_amount |-> 50,  revive |-> FALSE]
      [] i = "Hyper Potion" -> [type |-> "healing",  heal_amount |-> 200, revive |-> FALSE]
      [] i = "Max Potion"   -> [type |-> "healing",  heal_amount |-> 999, revive |-> FALSE]
      [] i = "Revive"       -> [type |-> "healing",  heal_amount |-> 0,   revive |-> TRUE]
      [] i \in {"Thunder Stone", "Fire Stone", "Water Stone", "Leaf Stone"} ->
                               [type |-> "evolution", heal_amount |-> 0, revive |-> FALSE]
      [] i = "Rare Candy"   -> [type |-> "misc",     heal_amount |-> 0,   revive |-> FALSE]
      [] i \in {"Bicycle", "Pokedex"} ->
                               [type |-> "key",      heal_amount |-> 0,   revive |-> FALSE]
      [] OTHER              -> [type |-> "",         heal_amount |-> 0,   revive |-> FALSE]

-----------------------------------------------------------------------------
(* Creature model: game/pokemon.py *)

\* Stats.calculate_stat: int(((2 * base_stat + iv) * level) / 100) + 5
calculate_stat(base_stat, level) ==
    (((2 * base_stat + default_iv) * level) \div 100) + 5

\* Pokemon.calculate_exp_to_next_level: int(1.2 * level ** 2)
calculate_exp_to_next_level(level) == (12 * level * level) \div 10

\* PP of freshly created moves
fresh_pp(moves) == [i \in 1..Len(moves) |-> move_database(moves[i]).max_pp]

\* Pokemon.__init__
NewPokemon(species, level) ==
    [species |-> species,
     level |-> level,
     experience |-> 0,
     experience_to_next_level |-> calculate_exp_to_next_level(level),
     max_hp |-> calculate_stat(species_data(species).hp, level),
     current_hp |-> calculate_stat(species_data(species).hp, level),
     status_condition |-> "none",
     moves |-> species_moves(species),
     pp |-> fresh_pp(species_moves(species))]

\* GameEngine.create_trainer_pokemon with a "moves" entry
create_trainer_pokemon(species, level, moves) ==
    [NewPokemon(species, level) EXCEPT !.moves = moves, !.pp = fresh_pp(moves)]

\* is_fainted comparing with < instead of <=
is_fainted_strict(p) == p.current_hp < 0

\* Pokemon.is_fainted
is_fainted(p) == p.current_hp <= 0

\* take_damage without the floor at 0
take_damage_unclamped(p, damage) ==
    [p EXCEPT !.current_hp = p.current_hp - damage]

\* Pokemon.take_damage (its return value is current_hp == 0 afterwards)
take_damage(p, damage) ==
    [p EXCEPT !.current_hp = Max(0, p.current_hp - damage)]

\* Pokemon.heal() without an amount
heal_full(p) ==
    [p EXCEPT !.current_hp = p.max_hp, !.status_condition = "none"]

\* Pokemon.heal(amount)
heal_amount(p, amount) ==
    LET hp == Min(p.max_hp, p.current_hp + amount)
    IN  [p EXCEPT !.current_hp = hp,
                  !.status_condition =
                      IF hp = p.max_hp THEN "none" ELSE p.status_condition]

\* Pokemon.level_up: the creature after the call
level_up(p) ==
    IF p.level >= max_level THEN p
    ELSE LET lvl == p.level + 1
             new_max == calculate_stat(species_data(p.species).hp, lvl)
         IN  [p EXCEPT !.level = lvl,
                       !.experience = 0,
                       !.experience_to_next_level =
                           calculate_exp_to_next_level(lvl),
                       !.max_hp = new_max,
                       !.current_hp = p.current_hp + (new_max - p.max_hp)]

\* Pokemon.level_up: the value it returns
level_up_ret(p) ==
    IF p.level >= max_level THEN FALSE
    ELSE /\ species_data(p.species).evolves_to # ""
         /\ species_data(p.species).evo_level > 0
         /\ p.level + 1 >= species_data(p.species).evo_level

\* gain_experience comparing with > instead of >=
gain_experience_strict(p, amount) ==
    LET q == [p EXCEPT !.experience = p.experience + amount]
    IN  IF q.experience > q.experience_to_next_level THEN level_up(q) ELSE q

\* Pokemon.gain_experience: the creature after the call
gain_experience(p, amount) ==
    LET q == [p EXCEPT !.experience = p.experience + amount]
    IN  IF q.experience >= q.experience_to_next_level THEN level_up(q) ELSE q

\* Pokemon.gain_experience: the value it returns
gain_experience_ret(p, amount) ==
    LET q == [p EXCEPT !.experience = p.experience + amount]
    IN  IF q.experience >= q.experience_to_next_level
        THEN level_up_ret(q) ELSE FALSE

\* Pokemon.evolve: the creature after the call (moves are kept)
evolve(p) ==
    IF species_data(p.species).evolves_to = "" THEN p
    ELSE LET sp == species_data(p.species).evolves_to
             new_max == calculate_stat(species_data(sp).hp, p.level)
         IN  [p EXCEPT !.species = sp,
                       !.max_hp = new_max,
                       !.current_hp = p.current_hp + (new_max - p.max_hp)]

-----------------------------------------------------------------------------
(* Inventory and Trainer.use_item: game/trainer.py *)

\* Inventory.items.get(item_name, 0)
item_count(inv, name) ==
    LET idx == {i \in 1..Len(inv) : inv[i].name = name}
    IN  IF idx = {} THEN 0 ELSE inv[CHOOSE i \in idx : TRUE].qty

\* Inventory.has_item
has_item(inv, name) == item_count(inv, name) >= 1

\* Inventory.remove_item(item_name, 1): the entry is deleted at quantity 0
remove_item(inv, name) ==
    IF ~has_item(inv, name) THEN inv
    ELSE LET i == CHOOSE j \in 1..Len(inv) : inv[j].name = name
         IN  IF inv[i].qty = 1
             THEN SubSeq(inv, 1, i - 1) \o SubSeq(inv, i + 1, Len(inv))
             ELSE [inv EXCEPT ![i].qty = inv[i].qty - 1]

\* Inventory.get_items_by_type: the names, in insertion order
get_items_by_type(inv, type) ==
    SelectSeq([i \in 1..Len(inv) |-> inv[i].name],
              LAMBDA n : item_database(n).type = type)

\* Trainer.use_item: the value it returns (target_pokemon is always given)
use_item_ret(inv, name) ==
    /\ has_item(inv, name)
    /\ item_database(name).type \in {"healing", "misc"}
    /\ item_database(name).type = "misc" => name = "Rare Candy"

\* Trainer.use_item: the target creature after the call
use_item_target(inv, name, p) ==
    IF ~use_item_ret(inv, name) THEN p
    ELSE IF item_database(name).type = "healing"
    THEN IF item_database(name).heal_amount > 0
         THEN IF item_database(name).heal_amount = 999
              THEN heal_full(p)
              ELSE heal_amount(p, item_database(name).heal_amount)
         ELSE IF item_database(name).revive /\ is_fainted(p)
              THEN [p EXCEPT !.current_hp = p.max_hp \div 2]
              ELSE p
    ELSE gain_experience(p, p.experience_to_next_level)

\* use_item that does not take the item out of the inventory
use_item_inventory_keeps(inv, name) == inv

\* Trainer.use_item: the inventory after the call
use_item_inventory(inv, name) ==
    IF use_item_ret(inv, name) THEN remove_item(inv, name) ELSE inv

-----------------------------------------------------------------------------
(* Damage formula: Pokemon.calculate_damage and the type chart *)

\* draws of random.uniform(0.85, 1.0), in hundredths
RandomFactors == {85, 100}

\* Pokemon.TYPE_EFFECTIVENESS[attack_type].get(target_type, 1.0), in halves
\* (0.0 -> 0, 0.5 -> 1, 1.0 -> 2, 2.0 -> 4); attack types without a row and
\* pairs without an entry give 1.0.
get_type_effectiveness_static(attack_type, target_type) ==
    CASE attack_type = "Fire" ->
           (CASE target_type \in {"Grass", "Ice", "Bug", "Steel"} -> 4
              [] target_type \in {"Fire", "Water", "Rock", "Dragon"} -> 1
              [] OTHER -> 2)
      [] attack_type = "Water" ->
           (CASE target_type \in {"Fire", "Ground", "Rock"} -> 4
              [] target_type \in {"Water", "Grass", "Dragon"} -> 1
              [] OTHER -> 2)
      [] attack_type = "Electric" ->
           (CASE target_type \in {"Water", "Flying"} -> 4
              [] target_type \in {"Electric", "Grass", "Dragon"} -> 1
              [] target_type = "Ground" -> 0
              [] OTHER -> 2)
      [] attack_type = "Grass" ->
           (CASE target_type \in {"Water", "Ground", "Rock"} -> 4
              [] target_type \in {"Fire", "Grass", "Poison", "Flying", "Bug",
                                  "Dragon", "Steel"} -> 1
              [] OTHER -> 2)
      [] OTHER -> 2

\* Pokemon.get_type_effectiveness: product over the target's types, as the
\* pair <<numerator, denominator>>
RECURSIVE get_type_effectiveness(_, _)
get_type_effectiveness(attack_type, target_types) ==
    IF target_types = <<>> THEN <<1, 1>>
    ELSE LET rest == get_type_effectiveness(attack_type, Tail(target_types))
         IN  <<get_type_effectiveness_static(attack_type, Head(target_types))
                   * rest[1],
               2 * rest[2]>>

InTypes(type, types) == \E i \in 1..Len(types) : types[i] = type

\* calculate_damage without the early return for moves of power 0
calculate_damage_no_power_guard(attacker, move, target, r) ==
    LET mv == move_database(move)
        physical == mv.type \in {"Normal", "Fighting"}
        a == species_data(attacker.species)
        t == species_data(target.species)
        attack_stat == IF physical
                       THEN calculate_stat(a.attack, attacker.level)
                       ELSE calculate_stat(a.special_attack, attacker.level)
        defense_stat == IF physical
                        THEN calculate_stat(t.defense, target.level)
                        ELSE calculate_stat(t.special_defense, target.level)
        eff == get_type_effectiveness(mv.type, t.types)
        stab == IF InTypes(mv.type, a.types) THEN 3 ELSE 2
        num == ((2 * attacker.level + 10) * mv.power * attack_stat
                + 500 * defense_stat) * eff[1] * stab * r
        den == 250 * defense_stat * eff[2] * 2 * 100
    IN  num \div den

\* Pokemon.calculate_damage(move, target) for the draw r (hundredths):
\*   int((((2*level/5 + 2) * power * A / D) / 50 + 2) * eff * stab * r)
\* computed exactly as floor of the quotient of two integers.
calculate_damage(attacker, move, target, r) ==
    LET mv == move_database(move)
        physical == mv.type \in {"Normal", "Fighting"}
        a == species_data(attacker.species)
        t == species_data(target.species)
        attack_stat == IF physical
                       THEN calculate_stat(a.attack, attacker.level)
                       ELSE calculate_stat(a.special_attack, attacker.level)
        defense_stat == IF physical
                        THEN calculate_stat(t.defense, target.level)
                        ELSE calculate_stat(t.special_defense, target.level)
        eff == get_type_effectiveness(mv.type, t.types)
        stab == IF InTypes(mv.type, a.types) THEN 3 ELSE 2
        num == ((2 * attacker.level + 10) * mv.power * attack_stat
                + 500 * defense_stat) * eff[1] * stab * r
        den == 250 * defense_stat * eff[2] * 2 * 100
    IN  IF mv.power = 0 THEN 0 ELSE num \div den

\* GameEngine.calculate_exp_gain
calculate_exp_gain(player, opponent) ==
    (opponent.level * 10 * Max(1, opponent.level - player.level + 5)) \div 10

\* get_active_pokemon that returns the first team member, fainted or not
get_active_pokemon_first_member(t) == IF Len(t) > 0 THEN 1 ELSE 0

\* Trainer.get_active_pokemon: index of the first non-fainted team member,
\* 0 for None
get_active_pokemon(t) ==
    IF \A i \in 1..Len(t) : is_fainted(t[i]) THEN 0
    ELSE CHOOSE i \in 1..Len(t) :
             /\ ~is_fainted(t[i])
             /\ \A j \in 1..(i - 1) : is_fainted(t[j])

\* has_usable_pokemon that only looks whether the team is empty
has_usable_pokemon_nonempty(t) == Len(t) > 0

\* Trainer.has_usable_pokemon
has_usable_pokemon(t) == \E i \in 1..Len(t) : ~is_fainted(t[i])

\* InputHandler.get_move_choice: the 1-based numbers it can return (None is
\* modelled by the cancel actions)
get_move_choice(p) == {m \in 1..Len(p.moves) : p.pp[m] > 0}

\* InputHandler.get_pokemon_choice: the 1-based numbers it can return
get_pokemon_choice(t) == {k \in 1..Len(t) : t[k].current_hp > 0}

-----------------------------------------------------------------------------
(* Values of the history variables when nothing has been recorded *)

NoOp == [op |-> "none", arg |-> 0, ret |-> FALSE, level |-> 0,
         experience |-> 0, threshold |-> 0, hp |-> 0]
NoSnapshot == [team |-> <<>>, opp_hp |-> 0, inventory |-> <<>>, active |-> 0,
               battle_turn |-> 0]
NoTurn == [choice |-> "none", opp_acted |-> FALSE, move |-> "",
           report |-> "none", faulted |-> FALSE, pre |-> NoSnapshot]
NoAward == [calls |-> 0, total |-> 0, due |-> 0, level |-> 0,
            experience |-> 0, threshold |-> 0]
NoOpponent == NewPokemon("Rattata", 2)

-----------------------------------------------------------------------------
(* SpecCreature: one creature under its public operations *)

\* species and levels a creature is created with
CreatureSpecies == {"Bulbasaur", "Caterpie", "Pikachu", "Geodude"}
CreatureLevels == {5, 6, 99, 100}
\* arguments of take_damage, gain_experience and use_item
DamageAmounts == {0, 3, 400}
HealAmounts == {2, 50}
ExpAmounts == {4, 30, 80, 12000}
UsableItems == {"Potion", "Max Potion", "Revive", "Rare Candy", "Pokeball"}

StartInventory ==
    <<[name |-> "Pokeball", qty |-> 2], [name |-> "Potion", qty |-> 2],
      [name |-> "Revive", qty |-> 1], [name |-> "Max Potion", qty |-> 1],
      [name |-> "Rare Candy", qty |-> 1]>>

InitCreature ==
    /\ \E s \in CreatureSpecies, l \in CreatureLevels :
           team = <<NewPokemon(s, l)>>
    /\ box = <<>>
    /\ inventory = StartInventory
    /\ stats = [battles_won |-> 0, battles_lost |-> 0, pokemon_caught |-> 0,
                items_used |-> 0]
    /\ opp = NoOpponent
    /\ is_wild = TRUE
    /\ pc = "idle"
    /\ battle_turn = 0
    /\ active = 1
    /\ start_active = 1
    /\ result = "none"
    /\ turn = NoTurn
    /\ award = NoAward
    /\ last_op = NoOp
    /\ ops = 0

Record(op, arg, ret) ==
    [op |-> op, arg |-> arg, ret |-> ret, level |-> team[1].level,
     experience |-> team[1].experience,
     threshold |-> team[1].experience_to_next_level,
     hp |-> team[1].current_hp]

CreatureFrame ==
    UNCHANGED <<box, opp, is_wild, pc, battle_turn, active, start_active,
                result, turn, award>>

OpTakeDamage ==
    /\ ops < MaxOps
    /\ \E d \in DamageAmounts :
           /\ team' = [team EXCEPT ![1] = take_damage(team[1], d)]
           /\ last_op' = Record("take_damage", d,
                                take_damage(team[1], d).current_hp = 0)
    /\ ops' = ops + 1
    /\ UNCHANGED <<inventory, stats>>
    /\ CreatureFrame

OpHeal ==
    /\ ops < MaxOps
    /\ team' = [team EXCEPT ![1] = heal_full(team[1])]
    /\ last_op' = Record("heal", 0, FALSE)
    /\ ops' = ops + 1
    /\ UNCHANGED <<inventory, stats>>
    /\ CreatureFrame

OpHealAmount ==
    /\ ops < MaxOps
    /\ \E a \in HealAmounts :
           /\ team' = [team EXCEPT ![1] = heal_amount(team[1], a)]
           /\ last_op' = Record("heal", a, FALSE)
    /\ ops' = ops + 1
    /\ UNCHANGED <<inventory, stats>>
    /\ CreatureFrame

OpGainExperience ==
    /\ ops < MaxOps
    /\ \E a \in ExpAmounts :
           /\ team' = [team EXCEPT ![1] = gain_experience(team[1], a)]
           /\ last_op' = Record("gain_experience", a,
                                gain_experience_ret(team[1], a))
    /\ ops' = ops + 1
    /\ UNCHANGED <<inventory, stats>>
    /\ CreatureFrame

OpLevelUp ==
    /\ ops < MaxOps
    /\ team' = [team EXCEPT ![1] = level_up(team[1])]
    /\ last_op' = Record("level_up", 0, level_up_ret(team[1]))
    /\ ops' = ops + 1
    /\ UNCHANGED <<inventory, stats>>
    /\ CreatureFrame

OpEvolve ==
    /\ ops < MaxOps
    /\ team' = [team EXCEPT ![1] = evolve(team[1])]
    /\ last_op' = Record("evolve", 0, FALSE)
    /\ ops' = ops + 1
    /\ UNCHANGED <<inventory, stats>>
    /\ CreatureFrame

OpUseItem ==
    /\ ops < MaxOps
    /\ \E i \in UsableItems :
           /\ team' = [team EXCEPT ![1] = use_item_target(inventory, i, team[1])]
           /\ inventory' = use_item_inventory(inventory, i)
           /\ stats' = [stats EXCEPT !.items_used =
                            IF use_item_ret(inventory, i) THEN @ + 1 ELSE @]
           /\ last_op' = Record("use_item", 0, use_item_ret(inventory, i))
    /\ ops' = ops + 1
    /\ CreatureFrame

NextCreature ==
    \/ OpTakeDamage
    \/ OpHeal
    \/ OpHealAmount
    \/ OpGainExperience
    \/ OpLevelUp
    \/ OpEvolve
    \/ OpUseItem

SpecCreature == InitCreature /\ [][NextCreature]_vars

-----------------------------------------------------------------------------
(* Catch resolver: GameEngine.attempt_catch and Trainer.catch_pokemon *)

\* Pokemon.get_catch_rate
get_catch_rate(p) ==
    CASE p.species \in {"Bulbasaur", "Charmander", "Squirtle"} -> 45
      [] p.species = "Pikachu" -> 190
      [] p.species \in {"Rattata", "Caterpie", "Pidgey"} -> 255
      [] OTHER -> 100

\* item_database[ball]["catch_rate"], in halves (default 1.0)
ball_modifier(ball) ==
    CASE ball = "Great Ball" -> 3
      [] ball = "Ultra Ball" -> 4
      [] ball = "Master Ball" -> 510
      [] OTHER -> 2

\* status_modifier of Trainer.catch_pokemon, in halves
status_modifier(p) ==
    CASE p.status_condition \in {"sleep", "freeze"} -> 4
      [] p.status_condition \in {"paralyze", "burn", "poison"} -> 3
      [] OTHER -> 2

\* catch_probability with an HP modifier that grows with the remaining HP
catch_probability_easier_when_healthy(p, ball) ==
    <<get_catch_rate(p) * ball_modifier(ball)
          * (p.max_hp + 2 * p.current_hp) * status_modifier(p),
      255 * 4 * 3 * p.max_hp>>

\* catch_probability of Trainer.catch_pokemon before min(1.0, .), as the
\* pair <<numerator, denominator>>
catch_probability(p, ball) ==
    <<get_catch_rate(p) * ball_modifier(ball)
          * (3 * p.max_hp - 2 * p.current_hp) * status_modifier(p),
      255 * 4 * 3 * p.max_hp>>

\* catch_probability = min(1.0, catch_probability), as a pair
catch_probability_min(p, ball) ==
    LET pr == catch_probability(p, ball)
    IN  IF pr[1] > pr[2] THEN <<1, 1>> ELSE pr

\* comparison of two probabilities given as pairs
ProbLess(a, b) == a[1] * b[2] < b[1] * a[2]
ProbEqual(a, b) == a[1] * b[2] = b[1] * a[2]

\* the names of item_database with type "pokeball"
CaptureDevices == {"Pokeball", "Great Ball", "Ultra Ball", "Master Ball"}

\* outcomes of "random.random() < catch_probability" in Trainer.catch_pokemon:
\* the draw lies in [0, 1)
catch_outcomes(p, ball) ==
    LET pr == catch_probability(p, ball)
    IN  {b \in BOOLEAN : (b => pr[1] > 0) /\ (~b => pr[1] < pr[2])}

\* Trainer.add_pokemon: the team and the box after the call
add_pokemon_team(t, p) ==
    IF Len(t) < max_team_size THEN Append(t, p) ELSE t

\* add_pokemon that also stores the creature in the box when the team has room
add_pokemon_box_always(t, b, p) == Append(b, p)
add_pokemon_box(t, b, p) ==
    IF Len(t) < max_team_size THEN b ELSE Append(b, p)

-----------------------------------------------------------------------------
(* Spec: one call of GameEngine.start_battle *)

\* PP left on the moves of the player's creatures when the battle starts
\* (PP is never restored between battles)
LowPP(p, n) == [p EXCEPT !.pp = [i \in 1..Len(p.moves) |-> Min(n, p.pp[i])]]

\* the player's lead creature: the starter, hurt or fainted, close to its
\* next level
Leads ==
    {[LowPP(create_trainer_pokemon("Bulbasaur", 5, <<"Tackle", "Growl">>), 1)
         EXCEPT !.current_hp = h, !.experience = 27] : h \in {0, 3}}

\* the rest of the team: creatures caught earlier
Benches ==
    {<<>>,
     <<[LowPP(NewPokemon("Pidgey", 3), 1) EXCEPT !.current_hp = 2]>>,
     <<[NewPokemon("Caterpie", 4) EXCEPT !.current_hp = 0]>>}

\* opponents: wild creatures of route 1 and the first gym creature
WildOpponents == {NewPokemon("Caterpie", 2), NewPokemon("Weedle", 2)}
TrainerOpponents ==
    {create_trainer_pokemon("Geodude", 12, <<"Tackle", "Defense Curl">>)}

Inventories ==
    {<<[name |-> "Pokeball", qty |-> 2], [name |-> "Potion", qty |-> 1]>>,
     <<[name |-> "Revive", qty |-> 2], [name |-> "Rare Candy", qty |-> 1]>>}

Init ==
    /\ \E l \in Leads, b \in Benches : team = <<l>> \o b
    /\ box = <<>>
    /\ inventory \in Inventories
    /\ stats = [battles_won |-> 0, battles_lost |-> 0, pokemon_caught |-> 0,
                items_used |-> 0]
    /\ \E w \in BOOLEAN :
           /\ is_wild = w
           /\ opp \in (IF w THEN WildOpponents ELSE TrainerOpponents)
    /\ pc = "idle"
    /\ battle_turn = 0
    /\ active = 0
    /\ start_active = 0
    /\ result = "none"
    /\ turn = NoTurn
    /\ award = NoAward
    /\ last_op = NoOp
    /\ ops = 0

BattleFrame == UNCHANGED <<last_op, ops, is_wild>>

\* the while condition without the turn ceiling
loop_condition_unbounded(p, o, t) == ~is_fainted(p) /\ ~is_fainted(o)

\* the while condition of battle_loop
loop_condition(p, o, t) ==
    /\ ~is_fainted(p)
    /\ ~is_fainted(o)
    /\ t < max_turns

\* start_battle that enters battle_loop with the first team member whether
\* or not it can battle
StartBattle_NoRosterCheck ==
    /\ pc = "idle"
    /\ active' = Max(1, get_active_pokemon(team))
    /\ start_active' = Max(1, get_active_pokemon(team))
    /\ pc' = "loop"
    /\ UNCHANGED <<team, box, inventory, stats, opp, battle_turn, turn, award,
                   result>>
    /\ BattleFrame

\* start_battle up to the call of battle_loop
StartBattle ==
    /\ pc = "idle"
    /\ IF get_active_pokemon(team) = 0
       THEN /\ result' = "no_pokemon"
            /\ pc' = "done"
            /\ UNCHANGED <<active, start_active>>
       ELSE /\ active' = get_active_pokemon(team)
            /\ start_active' = get_active_pokemon(team)
            /\ pc' = "loop"
            /\ UNCHANGED result
    /\ UNCHANGED <<team, box, inventory, stats, opp, battle_turn, turn, award>>
    /\ BattleFrame

\* the battle state when an iteration of the loop starts (history)
Snapshot ==
    [team |-> team, opp_hp |-> opp.current_hp, inventory |-> inventory,
     active |-> active, battle_turn |-> battle_turn]

\* the while condition of battle_loop, the increment of battle_turn and,
\* when the condition fails, the code after the loop
LoopCheck ==
    /\ pc = "loop"
    /\ IF loop_condition(team[active], opp, battle_turn)
       THEN /\ battle_turn' = battle_turn + 1
            /\ turn' = [NoTurn EXCEPT !.pre = Snapshot]
            /\ pc' = "menu"
            /\ UNCHANGED result
       ELSE /\ result' = IF battle_turn >= max_turns THEN "draw" ELSE "defeat"
            /\ pc' = "post"
            /\ battle_turn' = 0
            /\ turn' = NoTurn
    /\ UNCHANGED <<team, box, inventory, stats, opp, active, start_active, award>>
    /\ BattleFrame

\* the message shown after an attack: "It dealt ... damage!" or
\* "The attack missed!"
battle_message(damage) == IF damage > 0 THEN "damage" ELSE "missed"

\* battle_choice 1 with a move chosen: PP, damage, opponent's HP, message
Fight ==
    /\ pc = "menu"
    /\ \E m \in get_move_choice(team[active]), r \in RandomFactors :
           LET move == team[active].moves[m]
               damage == calculate_damage(team[active], move, opp, r)
           IN  /\ team' = [team EXCEPT ![active].pp[m] = @ - 1]
               /\ opp' = take_damage(opp, damage)
               /\ turn' = [turn EXCEPT !.choice = "fight",
                                       !.move = move,
                                       !.report = battle_message(damage)]
    /\ pc' = "check"
    /\ UNCHANGED <<box, inventory, stats, battle_turn, active, start_active,
                   result, award>>
    /\ BattleFrame

\* battle_choice 1 with the move selection cancelled: "continue"
FightCancel ==
    /\ pc = "menu"
    /\ pc' = "loop"
    /\ turn' = NoTurn
    /\ UNCHANGED <<team, box, inventory, stats, opp, battle_turn, active,
                   start_active, result, award>>
    /\ BattleFrame

\* battle_choice 2 with a healing item chosen
Item ==
    /\ pc = "menu"
    /\ get_items_by_type(inventory, "healing") # <<>>
    /\ \E k \in 1..Len(get_items_by_type(inventory, "healing")) :
           LET item == get_items_by_type(inventory, "healing")[k]
           IN  /\ team' = [team EXCEPT
                              ![active] = use_item_target(inventory, item, @)]
               /\ inventory' = use_item_inventory(inventory, item)
               /\ IF use_item_ret(inventory, item)
                  THEN /\ stats' = [stats EXCEPT !.items_used = @ + 1]
                       /\ turn' = [turn EXCEPT !.choice = "item"]
                       /\ pc' = "check"
                  ELSE /\ pc' = "loop"
                       /\ turn' = NoTurn
                       /\ UNCHANGED stats
    /\ UNCHANGED <<box, opp, battle_turn, active, start_active, result, award>>
    /\ BattleFrame

\* battle_choice 2 with the item selection cancelled: "continue"
ItemCancel ==
    /\ pc = "menu"
    /\ get_items_by_type(inventory, "healing") # <<>>
    /\ pc' = "loop"
    /\ turn' = NoTurn
    /\ UNCHANGED <<team, box, inventory, stats, opp, battle_turn, active,
                   start_active, result, award>>
    /\ BattleFrame

\* battle_choice 2 without a healing item: "continue"
ItemNone ==
    /\ pc = "menu"
    /\ get_items_by_type(inventory, "healing") = <<>>
    /\ pc' = "loop"
    /\ turn' = NoTurn
    /\ UNCHANGED <<team, box, inventory, stats, opp, battle_turn, active,
                   start_active, result, award>>
    /\ BattleFrame

\* a voluntary switch that ends the iteration ("continue") after the switch
Switch_EndsIteration ==
    /\ pc = "menu"
    /\ Len(team) > 1
    /\ \E k \in get_pokemon_choice(team) :
           /\ active' = (IF k # active /\ ~is_fainted(team[k]) THEN k ELSE active)
           /\ pc' = "loop"
    /\ UNCHANGED <<team, box, inventory, stats, opp, battle_turn, start_active,
                   result, award, turn>>
    /\ BattleFrame

\* battle_choice 3 with a team member chosen
Switch ==
    /\ pc = "menu"
    /\ Len(team) > 1
    /\ \E k \in get_pokemon_choice(team) :
           IF k # active /\ ~is_fainted(team[k])
           THEN /\ active' = k
                /\ turn' = [turn EXCEPT !.choice = "switch"]
                /\ pc' = "check"
           ELSE /\ pc' = "loop"
                /\ turn' = NoTurn
                /\ UNCHANGED active
    /\ UNCHANGED <<team, box, inventory, stats, opp, battle_turn, start_active,
                   result, award>>
    /\ BattleFrame

\* battle_choice 3 with the selection cancelled: "continue"
SwitchCancel ==
    /\ pc = "menu"
    /\ Len(team) > 1
    /\ pc' = "loop"
    /\ turn' = NoTurn
    /\ UNCHANGED <<team, box, inventory, stats, opp, battle_turn, active,
                   start_active, result, award>>
    /\ BattleFrame

\* a refused switch after which the iteration goes on to the opponent's turn
SwitchAlone_OpponentActs ==
    /\ pc = "menu"
    /\ Len(team) <= 1
    /\ pc' = "check"
    /\ UNCHANGED <<team, box, inventory, stats, opp, battle_turn, active,
                   start_active, result, turn, award>>
    /\ BattleFrame

\* battle_choice 3 with a single team member: "continue"
SwitchAlone ==
    /\ pc = "menu"
    /\ Len(team) <= 1
    /\ pc' = "loop"
    /\ turn' = NoTurn
    /\ UNCHANGED <<team, box, inventory, stats, opp, battle_turn, active,
                   start_active, result, award>>
    /\ BattleFrame

\* battle_choice 4 in a wild encounter: random.random() < 0.8 or not
RunWild ==
    /\ pc = "menu"
    /\ is_wild
    /\ \E escaped \in BOOLEAN :
           IF escaped
           THEN /\ result' = "run"
                /\ pc' = "post"
                /\ battle_turn' = 0
                /\ turn' = NoTurn
           ELSE /\ pc' = "check"
                /\ turn' = [turn EXCEPT !.choice = "run"]
                /\ UNCHANGED <<result, battle_turn>>
    /\ UNCHANGED <<team, box, inventory, stats, opp, active, start_active,
                   award>>
    /\ BattleFrame

\* a Run choice that ends a trainer battle
RunTrainer_Escapes ==
    /\ pc = "menu"
    /\ ~is_wild
    /\ result' = "run"
    /\ pc' = "post"
    /\ battle_turn' = 0
    /\ turn' = NoTurn
    /\ UNCHANGED <<team, box, inventory, stats, opp, active, start_active,
                   award>>
    /\ BattleFrame

\* battle_choice 4 in a trainer battle: "continue"
RunTrainer ==
    /\ pc = "menu"
    /\ ~is_wild
    /\ pc' = "loop"
    /\ turn' = NoTurn
    /\ UNCHANGED <<team, box, inventory, stats, opp, battle_turn, active,
                   start_active, result, award>>
    /\ BattleFrame

\* "Check if opponent fainted": experience award and return of "victory"
CheckFainted ==
    /\ pc = "check"
    /\ IF is_fainted(opp)
       THEN LET exp_gained == calculate_exp_gain(team[active], opp)
            IN  /\ team' = [team EXCEPT ![active] =
                               level_up(gain_experience(@, exp_gained))]
                /\ award' = [calls |-> 1, total |-> exp_gained,
                             due |-> exp_gained,
                             level |-> team[active].level,
                             experience |-> team[active].experience,
                             threshold |->
                                 team[active].experience_to_next_level]
                /\ result' = "victory"
                /\ pc' = "post"
                /\ battle_turn' = 0
                /\ turn' = NoTurn
       ELSE /\ pc' = "oppturn"
            /\ UNCHANGED <<team, award, result, battle_turn, turn>>
    /\ UNCHANGED <<box, inventory, stats, opp, active, start_active>>
    /\ BattleFrame

\* opponent_turn, then "Check if player Pokemon fainted" up to the request
\* for a replacement
OpponentTurn ==
    /\ pc = "oppturn"
    /\ \E m \in 1..Len(opp.moves), r \in RandomFactors :
           team' = [team EXCEPT ![active] =
                       take_damage(@, calculate_damage(opp, opp.moves[m], @, r))]
    /\ IF is_fainted(team'[active])
       THEN IF has_usable_pokemon(team')
            THEN /\ pc' = "forced"
                 /\ turn' = [turn EXCEPT !.opp_acted = TRUE]
                 /\ UNCHANGED <<result, battle_turn>>
            ELSE /\ pc' = "post"
                 /\ result' = "defeat"
                 /\ battle_turn' = 0
                 /\ turn' = NoTurn
       ELSE /\ pc' = "loop"
            /\ turn' = NoTurn
            /\ UNCHANGED <<result, battle_turn>>
    /\ UNCHANGED <<box, inventory, stats, opp, active, start_active, award>>
    /\ BattleFrame

\* forced switch after which the opponent attacks the replacement at once
ForcedSwitch_OpponentActs ==
    /\ pc = "forced"
    /\ \E k \in get_pokemon_choice(team) :
           IF ~is_fainted(team[k])
           THEN /\ active' = k
                /\ pc' = "oppturn"
                /\ UNCHANGED <<result, battle_turn>>
           ELSE /\ result' = "defeat"
                /\ pc' = "post"
                /\ battle_turn' = 0
                /\ UNCHANGED active
    /\ turn' = NoTurn
    /\ UNCHANGED <<team, box, inventory, stats, opp, start_active, award>>
    /\ BattleFrame

\* "Choose another Pokemon!" answered with a team member
ForcedSwitch ==
    /\ pc = "forced"
    /\ \E k \in get_pokemon_choice(team) :
           IF ~is_fainted(team[k])
           THEN /\ active' = k
                /\ pc' = "loop"
                /\ UNCHANGED <<result, battle_turn>>
           ELSE /\ result' = "defeat"
                /\ pc' = "post"
                /\ battle_turn' = 0
                /\ UNCHANGED active
    /\ turn' = NoTurn
    /\ UNCHANGED <<team, box, inventory, stats, opp, start_active, award>>
    /\ BattleFrame

\* "Choose another Pokemon!" answered with no selection
ForcedCancel ==
    /\ pc = "forced"
    /\ result' = "defeat"
    /\ pc' = "post"
    /\ battle_turn' = 0
    /\ turn' = NoTurn
    /\ UNCHANGED <<team, box, inventory, stats, opp, active, start_active,
                   award>>
    /\ BattleFrame

\* start_battle that counts every result other than Victory as a lost battle
PostBattle_CountsAnyLoss ==
    /\ pc = "post"
    /\ IF result = "victory"
       THEN LET exp_gained == calculate_exp_gain(team[start_active], opp)
            IN  /\ stats' = [stats EXCEPT !.battles_won = @ + 1]
                /\ team' = [team EXCEPT ![start_active] =
                               gain_experience(@, exp_gained)]
                /\ award' = [award EXCEPT !.calls = @ + 1,
                                          !.total = @ + exp_gained]
                /\ pc' = IF is_wild THEN "catch" ELSE "done"
       ELSE /\ stats' = [stats EXCEPT !.battles_lost = @ + 1]
            /\ pc' = "done"
            /\ UNCHANGED <<team, award>>
    /\ UNCHANGED <<box, inventory, opp, battle_turn, active, start_active,
                   result, turn>>
    /\ BattleFrame

\* start_battle after battle_loop returned
PostBattle ==
    /\ pc = "post"
    /\ IF result = "victory"
       THEN LET exp_gained == calculate_exp_gain(team[start_active], opp)
            IN  /\ stats' = [stats EXCEPT !.battles_won = @ + 1]
                /\ team' = [team EXCEPT ![start_active] =
                               gain_experience(@, exp_gained)]
                /\ award' = [award EXCEPT !.calls = @ + 1,
                                          !.total = @ + exp_gained]
                /\ pc' = IF is_wild THEN "catch" ELSE "done"
       ELSE /\ stats' = [stats EXCEPT !.battles_lost =
                            IF result = "defeat" THEN @ + 1 ELSE @]
            /\ pc' = "done"
            /\ UNCHANGED <<team, award>>
    /\ UNCHANGED <<box, inventory, opp, battle_turn, active, start_active,
                   result, turn>>
    /\ BattleFrame

\* attempt_catch answered "no"
CatchDecline ==
    /\ pc = "catch"
    /\ pc' = "done"
    /\ UNCHANGED <<team, box, inventory, stats, opp, battle_turn, active,
                   start_active, result, turn, award>>
    /\ BattleFrame

\* attempt_catch that keeps the ball when the creature breaks free
AttemptCatch_KeepsBallOnEscape ==
    /\ pc = "catch"
    /\ pc' = "done"
    /\ IF get_items_by_type(inventory, "pokeball") = <<>>
       THEN UNCHANGED <<team, box, inventory, stats, opp>>
       ELSE LET ball == get_items_by_type(inventory, "pokeball")[1]
            IN  \E first \in BOOLEAN :
                    IF first
                    THEN \E caught \in catch_outcomes(opp, ball) :
                             /\ inventory' = remove_item(inventory, ball)
                             /\ IF caught
                                THEN /\ opp' = heal_full(opp)
                                     /\ team' = add_pokemon_team(team, heal_full(opp))
                                     /\ box' = add_pokemon_box(team, box, heal_full(opp))
                                     /\ stats' = [stats EXCEPT
                                                     !.pokemon_caught = @ + 2]
                                ELSE UNCHANGED <<team, box, stats, opp>>
                    ELSE UNCHANGED <<team, box, inventory, stats, opp>>
    /\ turn' = [turn EXCEPT !.choice = "catch"]
    /\ UNCHANGED <<battle_turn, active, start_active, result, award>>
    /\ BattleFrame

\* attempt_catch answered "yes"
AttemptCatch ==
    /\ pc = "catch"
    /\ pc' = "done"
    /\ IF get_items_by_type(inventory, "pokeball") = <<>>
       THEN UNCHANGED <<team, box, inventory, stats, opp>>
       ELSE LET ball == get_items_by_type(inventory, "pokeball")[1]
            IN  \E first \in BOOLEAN :
                    IF first
                    THEN \E caught \in catch_outcomes(opp, ball) :
                             /\ inventory' = remove_item(inventory, ball)
                             /\ IF caught
                                THEN /\ opp' = heal_full(opp)
                                     /\ team' = add_pokemon_team(team, heal_full(opp))
                                     /\ box' = add_pokemon_box(team, box, heal_full(opp))
                                     /\ stats' = [stats EXCEPT
                                                     !.pokemon_caught = @ + 2]
                                ELSE UNCHANGED <<team, box, stats, opp>>
                    ELSE /\ inventory' = remove_item(inventory, ball)
                         /\ UNCHANGED <<team, box, stats, opp>>
    /\ turn' = [turn EXCEPT !.choice = "catch"]
    /\ UNCHANGED <<battle_turn, active, start_active, result, award>>
    /\ BattleFrame

Next ==
    \/ StartBattle
    \/ LoopCheck
    \/ Fight
    \/ FightCancel
    \/ Item
    \/ ItemCancel
    \/ ItemNone
    \/ Switch
    \/ SwitchCancel
    \/ SwitchAlone
    \/ RunWild
    \/ RunTrainer
    \/ CheckFainted
    \/ OpponentTurn
    \/ ForcedSwitch
    \/ ForcedCancel
    \/ PostBattle
    \/ CatchDecline
    \/ AttemptCatch

Spec == Init /\ [][Next]_vars

-----------------------------------------------------------------------------
(* SpecFault: start_battle when calls inside the try block of battle_loop  *)
(* raise. The handler (except Exception: ... continue) goes back to the    *)
(* while condition and undoes nothing.                                     *)

\* an exception raised by a display, logger or input call between two
\* updates of the battle state: before the player's action, after it, before
\* the opponent's turn or at the request for a replacement. The history
\* keeps that the iteration ended in the handler.
Fault ==
    /\ pc \in {"menu", "check", "oppturn", "forced"}
    /\ pc' = "loop"
    /\ turn' = [NoTurn EXCEPT !.faulted = TRUE]
    /\ UNCHANGED <<team, box, inventory, stats, opp, battle_turn, active,
                   start_active, result, award>>
    /\ BattleFrame

\* battle_choice 1 with an exception raised after move.use_move() and before
\* opponent_pokemon.take_damage(damage)
FightFault ==
    /\ pc = "menu"
    /\ \E m \in get_move_choice(team[active]) :
           /\ team' = [team EXCEPT ![active].pp[m] = @ - 1]
           /\ turn' = [NoTurn EXCEPT !.faulted = TRUE]
    /\ pc' = "loop"
    /\ UNCHANGED <<box, inventory, stats, opp, battle_turn, active,
                   start_active, result, award>>
    /\ BattleFrame

\* "Check if opponent fainted" with an exception raised after
\* gain_experience and before the return of "victory"
AwardFault ==
    /\ pc = "check"
    /\ is_fainted(opp)
    /\ LET exp_gained == calculate_exp_gain(team[active], opp)
       IN  /\ team' = [team EXCEPT ![active] = gain_experience(@, exp_gained)]
           /\ award' = [calls |-> 1, total |-> exp_gained,
                        due |-> exp_gained,
                        level |-> team[active].level,
                        experience |-> team[active].experience,
                        threshold |-> team[active].experience_to_next_level]
    /\ pc' = "loop"
    /\ turn' = [NoTurn EXCEPT !.faulted = TRUE]
    /\ UNCHANGED <<box, inventory, stats, opp, battle_turn, active,
                   start_active, result>>
    /\ BattleFrame

\* opponent_turn with an exception raised after player_pokemon.take_damage
\* and before "Check if player Pokemon fainted"
OpponentTurnFault ==
    /\ pc = "oppturn"
    /\ \E m \in 1..Len(opp.moves), r \in RandomFactors :
           team' = [team EXCEPT ![active] =
                       take_damage(@, calculate_damage(opp, opp.moves[m], @, r))]
    /\ pc' = "loop"
    /\ turn' = [NoTurn EXCEPT !.faulted = TRUE]
    /\ UNCHANGED <<box, inventory, stats, opp, battle_turn, active,
                   start_active, result, award>>
    /\ BattleFrame

NextFault ==
    \/ Next
    \/ Fault
    \/ FightFault
    \/ AwardFault
    \/ OpponentTurnFault

\* the battles in which faults are explored: a usable lead, alone or with a
\* usable bench, two Pokeballs and one Potion, a wild Caterpie or the gym's
\* Geodude
InitFault ==
    /\ Init
    /\ \A i \in 1..Len(team) : ~is_fainted(team[i])
    /\ has_item(inventory, "Potion")
    /\ is_wild => opp.species = "Caterpie"

SpecFault == InitFault /\ [][NextFault]_vars

-----------------------------------------------------------------------------
(* SpecCatch: one call of GameEngine.attempt_catch, as start_battle makes   *)
(* it after a Victory over a wild creature.                                *)

\* the beaten wild creature: one species per catch rate (45, 100, 190, 255)
CatchTargets ==
    {[NewPokemon(s, 2) EXCEPT !.current_hp = 0] :
         s \in {"Bulbasaur", "Weedle", "Pikachu", "Caterpie"}}

\* rosters of one, five and six creatures; the lead has just won
CatchTeams ==
    LET lead  == [create_trainer_pokemon("Bulbasaur", 5, <<"Tackle", "Growl">>)
                     EXCEPT !.current_hp = 3]
        other == [NewPokemon("Pidgey", 3) EXCEPT !.current_hp = 2]
    IN  {<<lead>> \o [i \in 1..n |-> other] : n \in {0, 4, 5}}

CatchBoxes == {<<>>, <<NewPokemon("Rattata", 2)>>}

\* bags with each capture device first, and one with none
CatchInventories ==
    {<<[name |-> "Pokeball", qty |-> 2], [name |-> "Potion", qty |-> 1]>>,
     <<[name |-> "Great Ball", qty |-> 1], [name |-> "Pokeball", qty |-> 1]>>,
     <<[name |-> "Ultra Ball", qty |-> 1]>>,
     <<[name |-> "Master Ball", qty |-> 1]>>,
     <<[name |-> "Potion", qty |-> 1]>>}

InitCatch ==
    /\ team \in CatchTeams
    /\ box \in CatchBoxes
    /\ inventory \in CatchInventories
    /\ stats = [battles_won |-> 1, battles_lost |-> 0, pokemon_caught |-> 0,
                items_used |-> 0]
    /\ is_wild = TRUE
    /\ opp \in CatchTargets
    /\ pc = "catch"
    /\ battle_turn = 0
    /\ active = 1
    /\ start_active = 1
    /\ result = "victory"
    /\ turn = NoTurn
    /\ award = NoAward
    /\ last_op = NoOp
    /\ ops = 0

NextCatch ==
    \/ CatchDecline
    \/ AttemptCatch

SpecCatch == InitCatch /\ [][NextCatch]_vars

-----------------------------------------------------------------------------
(* Properties of the creature model, checked under SpecCreature *)

\* C1: every creature keeps 0 <= current_hp <= max_hp after any sequence of
\* take_damage, heal, level_up, evolve, gain_experience and item use; in
\* particular take_damage at current_hp = 0 never makes HP negative.
C1_HpWithinBounds ==
    \A i \in 1..Len(team) :
        /\ 0 <= team[i].current_hp
        /\ team[i].current_hp <= team[i].max_hp

\* C1 witness: take_damage with a positive amount was applied to a creature
\* that already had 0 HP.
C1_Witness ==
    /\ last_op.op = "take_damage"
    /\ last_op.arg > 0
    /\ last_op.hp = 0
    /\ team[1].current_hp = 0

\* C6 as stated: the level never exceeds 100, and gain_experience on a
\* level-100 creature leaves level, experience and threshold unchanged.
C6_AsStated ==
    /\ team[1].level <= max_level
    /\ (last_op.op = "gain_experience" /\ last_op.level = max_level) =>
           /\ team[1].level = last_op.level
           /\ team[1].experience = last_op.experience
           /\ team[1].experience_to_next_level = last_op.threshold

\* C7 as stated: a gain_experience call whose amount covers the current
\* threshold and the next one raises the level by more than one.
C7_AsStated ==
    (/\ last_op.op = "gain_experience"
     /\ last_op.level + 2 <= max_level
     /\ last_op.experience + last_op.arg >=
            last_op.threshold + calculate_exp_to_next_level(last_op.level + 1))
    => team[1].level >= last_op.level + 2

\* C7 amended: gain_experience levels at most once per call. When the
\* accumulated experience reaches the threshold of a creature below level
\* 100, the level rises by exactly one, the experience is reset to 0 and the
\* threshold and max HP are recomputed for the new level; otherwise the level
\* is unchanged and the amount is added to the experience.
C7_SingleLevelPerCall ==
    last_op.op = "gain_experience" =>
        IF /\ last_op.experience + last_op.arg >= last_op.threshold
           /\ last_op.level < max_level
        THEN /\ team[1].level = last_op.level + 1
             /\ team[1].experience = 0
             /\ team[1].experience_to_next_level =
                    calculate_exp_to_next_level(team[1].level)
             /\ team[1].max_hp =
                    calculate_stat(species_data(team[1].species).hp,
                                   team[1].level)
        ELSE /\ team[1].level = last_op.level
             /\ team[1].experience = last_op.experience + last_op.arg

\* C7 witness: a call whose amount covered two successive thresholds raised
\* the level by one only.
C7_Witness ==
    /\ last_op.op = "gain_experience"
    /\ last_op.level + 2 <= max_level
    /\ last_op.experience + last_op.arg >=
           last_op.threshold + calculate_exp_to_next_level(last_op.level + 1)
    /\ team[1].level = last_op.level + 1

\* C8 as stated: gain_experience returns true exactly when the level
\* increased during the call.
C8_AsStated ==
    last_op.op = "gain_experience" =>
        (last_op.ret <=> team[1].level > last_op.level)

-----------------------------------------------------------------------------
(* Properties of the battle state machine, checked under Spec *)

\* progress measure of one start_battle call: it decreases with every step
Measure ==
    CASE pc = "idle"    -> 5 * (max_turns + 1)
      [] pc = "menu"    -> 5 * (max_turns - battle_turn) + 4
      [] pc = "check"   -> 5 * (max_turns - battle_turn) + 3
      [] pc = "oppturn" -> 5 * (max_turns - battle_turn) + 2
      [] pc = "forced"  -> 5 * (max_turns - battle_turn) + 1
      [] pc = "loop"    -> 5 * (max_turns - battle_turn)
      [] pc = "post"    -> 0 - 1
      [] pc = "catch"   -> 0 - 2
      [] OTHER          -> 0 - 3

\* C2: every battle terminates within 100 turns. The turn counter never
\* exceeds 100, every pass through the loop head counts as a turn whatever
\* the player selects, every step of the battle decreases a measure that is
\* bounded below, and a loop head reached with the counter at 100 and both
\* creatures above 0 HP ends the battle with Draw.
C2_TerminatesWithinCeiling ==
    /\ [](battle_turn <= max_turns)
    /\ [][(pc = "loop" /\ pc' = "menu") => battle_turn' = battle_turn + 1]_vars
    /\ [][Measure' < Measure /\ Measure' >= 0 - 3]_vars
    /\ [][(/\ pc = "loop"
           /\ battle_turn = max_turns
           /\ team[active].current_hp > 0
           /\ opp.current_hp > 0) => (pc' = "post" /\ result' = "draw")]_vars

\* C2 witness: battle_loop has returned Draw with both creatures standing.
C2_Witness ==
    /\ pc = "post"
    /\ result = "draw"
    /\ team[active].current_hp > 0
    /\ opp.current_hp > 0

\* C3: when the player's Fight action brings the opponent to 0 HP the battle
\* ends with Victory in that turn: the next step returns Victory, and the
\* opponent never gets its turn, nor the player a decision, at 0 HP.
C3_VictoryOnFaint ==
    /\ [][(pc = "check" /\ opp.current_hp = 0) =>
              (pc' = "post" /\ result' = "victory")]_vars
    /\ [](opp.current_hp = 0 => pc \in {"check", "post", "catch", "done"})

\* C3 witness: battle_loop has returned Victory with the opponent at 0 HP
\* and the opponent has not acted in that turn.
C3_Witness ==
    /\ pc = "post"
    /\ result = "victory"
    /\ opp.current_hp = 0
    /\ award.calls = 1

\* C4 as stated: the experience added by start_battle for one victory is the
\* single amount floor(opp.level*10*max(1, opp.level - player.level + 5)/10)
\* computed when the opponent faints.
C4_AsStated ==
    (pc \in {"catch", "done"} /\ result = "victory") =>
        award.total = award.due

\* C5 as stated: on Victory the winner's level rises only if the awarded
\* experience brought its accumulated experience to the threshold.
C5_AsStated ==
    (pc = "post" /\ result = "victory") =>
        (team[active].level > award.level =>
             award.experience + award.due >= award.threshold)

\* C9: after the active creature fainted from the opponent's attack, the
\* player is asked for a replacement only if a non-fainted member exists;
\* choosing a non-fainted member makes it the active creature without
\* ending the battle, no selection ends it with Defeat, and a team without
\* non-fainted member ends it with Defeat at once.
C9_ForcedSwitch ==
    /\ [](pc = "forced" =>
              /\ team[active].current_hp = 0
              /\ \E k \in 1..Len(team) : team[k].current_hp > 0)
    /\ [][pc = "forced" =>
              \/ /\ pc' = "loop"
                 /\ result' = result
                 /\ team[active'].current_hp > 0
                 /\ team' = team
              \/ /\ pc' = "post"
                 /\ result' = "defeat"
                 /\ active' = active]_vars
    /\ [][(/\ pc = "oppturn"
           /\ \A k \in 1..Len(team') : team'[k].current_hp = 0) =>
              (pc' = "post" /\ result' = "defeat")]_vars

\* C9 witness: a replacement chosen at the forced switch is now the active
\* creature and the battle goes on.
C9_Witness ==
    /\ pc = "loop"
    /\ active # start_active
    /\ team[start_active].current_hp = 0
    /\ team[active].current_hp > 0
    /\ result = "none"

\* C10 as stated: in a wild encounter the opponent does not attack in the
\* turn in which the player switched.
C10_AsStated ==
    (is_wild /\ turn.choice = "switch") => pc # "oppturn"

\* C10 amended: a successful voluntary switch uses up the player's action of
\* that turn; the opponent then attacks the creature that was switched in.
C10_SwitchThenOpponent ==
    /\ [][(pc = "menu" /\ active' # active) =>
              (pc' = "check" /\ turn'.choice = "switch")]_vars
    /\ [][(pc = "check" /\ turn.choice = "switch") => pc' = "oppturn"]_vars
    /\ [][(pc = "oppturn" /\ turn.choice = "switch") =>
              /\ opp' = opp
              /\ \A k \in 1..Len(team) : k # active => team'[k] = team[k]]_vars

\* C10 witness: the opponent is about to act in a wild encounter in the turn
\* of a successful switch.
C10_Witness ==
    /\ is_wild
    /\ pc = "oppturn"
    /\ turn.choice = "switch"
    /\ active # start_active

\* C11: a voluntary Switch changes the active creature only when the team
\* has at least 2 members and the target is a non-fainted member other than
\* the active one, and the switch itself changes no HP and no PP. A Switch
\* choice that is refused (single-member team, identical target, cancelled
\* selection) changes nothing and ends the iteration: the opponent's turn is
\* reached only after a resolved action, and after a Switch only when the
\* active creature changed.
C11_SwitchFrame ==
    /\ [][(pc = "menu" /\ active' # active) =>
              /\ Len(team) >= 2
              /\ active' \in 1..Len(team)
              /\ team[active'].current_hp > 0
              /\ team' = team
              /\ opp' = opp
              /\ inventory' = inventory
              /\ turn'.choice = "switch"]_vars
    /\ [][(pc = "menu" /\ Len(team) <= 1) => active' = active]_vars
    /\ [][(pc = "menu" /\ pc' = "loop") =>
              /\ active' = active
              /\ team' = team
              /\ opp' = opp]_vars
    /\ [][(pc = "menu" /\ pc' # "loop" /\ pc' # "post") =>
              /\ pc' = "check"
              /\ turn'.choice \in {"fight", "item", "switch", "run"}
              /\ turn'.choice = "switch" => active' # active]_vars

\* C11 witness: a voluntary switch away from a non-fainted active creature
\* to another non-fainted member has happened and changed no HP and no PP.
C11_Witness ==
    /\ pc = "check"
    /\ turn.choice = "switch"
    /\ Len(team) >= 2
    /\ active # turn.pre.active
    /\ team[turn.pre.active].current_hp > 0
    /\ team[active].current_hp > 0
    /\ team = turn.pre.team
    /\ opp.current_hp = turn.pre.opp_hp

\* C12: the outcome Run occurs only in wild encounters. In a trainer battle
\* no choice ends the battle with Run, and a choice that resolves no action
\* (Run among them) ends the iteration before the opponent's turn. In a wild
\* encounter a Run choice either returns Run at once or fails without
\* changing any creature, and the opponent acts next.
C12_RunOnlyWild ==
    /\ [](result = "run" => is_wild)
    /\ [][(pc = "menu" /\ pc' = "post") =>
              /\ is_wild
              /\ result' = "run"
              /\ team' = team
              /\ opp' = opp]_vars
    /\ [][(pc = "menu" /\ turn'.choice = "run") =>
              /\ is_wild
              /\ pc' = "check"
              /\ team' = team
              /\ opp' = opp
              /\ active' = active
              /\ inventory' = inventory]_vars
    /\ [][(pc = "check" /\ turn.choice = "run") => pc' = "oppturn"]_vars
    /\ [][(/\ pc = "menu"
           /\ ~is_wild
           /\ team' = team
           /\ inventory' = inventory
           /\ active' = active) =>
              (pc' = "loop" /\ result' = result /\ opp' = opp)]_vars

\* C12 witness: in a wild encounter a Run choice has failed and the opponent
\* is about to act.
C12_Witness ==
    /\ is_wild
    /\ pc = "oppturn"
    /\ turn.choice = "run"
    /\ result = "none"

\* C13 as stated: on the player's Fight action hit or miss is decided by the
\* move's accuracy, so a move of accuracy 100 never misses, and a miss leaves
\* the opponent's HP unchanged.
C13_AsStated ==
    (pc = "check" /\ turn.choice = "fight" /\ turn.report = "missed") =>
        /\ move_database(turn.move).accuracy < 100
        /\ opp.current_hp = turn.pre.opp_hp

\* the creatures of the battle: the team members and the opponent
Creatures == {team[i] : i \in 1..Len(team)} \cup {opp}

\* C14: for any attacker and any target a move of power 0 yields exactly 0
\* damage whatever the random factor, and the player's Fight action with such
\* a move leaves the opponent's HP unchanged.
C14_ZeroPowerNoDamage ==
    /\ \A a \in Creatures, t \in Creatures, r \in RandomFactors :
           \A m \in 1..Len(a.moves) :
               move_database(a.moves[m]).power = 0 =>
                   calculate_damage(a, a.moves[m], t, r) = 0
    /\ (/\ pc = "check"
        /\ turn.choice = "fight"
        /\ move_database(turn.move).power = 0) =>
           opp.current_hp = turn.pre.opp_hp

\* C14 witness: the player has used Growl (power 0) and the opponent's HP is
\* what it was when the turn started.
C14_Witness ==
    /\ pc = "check"
    /\ turn.choice = "fight"
    /\ turn.move = "Growl"
    /\ team[active].pp # turn.pre.team[active].pp
    /\ opp.current_hp = turn.pre.opp_hp
    /\ opp.current_hp > 0

\* C15 as stated: the player's use of a move of power 0 is reported as "no
\* damage", never as "The attack missed!".
C15_AsStated ==
    (/\ pc = "check"
     /\ turn.choice = "fight"
     /\ move_database(turn.move).power = 0) => turn.report # "missed"

\* C16 as stated: a cancelled or invalid selection does not advance the turn
\* counter, so the counter the next loop test compares with the ceiling is
\* the one the iteration started with.
C16_AsStated ==
    [][(pc = "menu" /\ pc' = "loop") =>
           battle_turn' = turn.pre.battle_turn]_vars

\* C17 as stated: after a fault inside a turn, both creatures' HP, the PP of
\* the moves, the inventory and the active creature are what they were when
\* the turn started.
C17_AsStated ==
    [][turn'.faulted =>
           /\ team' = turn.pre.team
           /\ opp'.current_hp = turn.pre.opp_hp
           /\ inventory' = turn.pre.inventory
           /\ active' = turn.pre.active]_vars

\* the item names of Inventory.get_item_database
ItemNames ==
    {"Pokeball", "Great Ball", "Ultra Ball", "Master Ball", "Potion",
     "Super Potion", "Hyper Potion", "Max Potion", "Revive", "Thunder Stone",
     "Fire Stone", "Water Stone", "Leaf Stone", "Rare Candy", "Bicycle",
     "Pokedex"}

\* C18: a successful Item action lowers the count of one healing item the
\* trainer holds by exactly one and leaves every other count unchanged; no
\* other choice at the battle menu changes the inventory, without a healing
\* item no Item action succeeds, and a choice that is cancelled or refused
\* changes no HP and ends the iteration before the opponent's turn.
C18_ItemConsumesOne ==
    /\ [][(pc = "menu" /\ turn'.choice = "item") =>
              \E n \in ItemNames :
                  /\ item_database(n).type = "healing"
                  /\ item_count(inventory, n) >= 1
                  /\ item_count(inventory', n) = item_count(inventory, n) - 1
                  /\ \A o \in ItemNames \ {n} :
                         item_count(inventory', o) = item_count(inventory, o)
                  /\ pc' = "check"]_vars
    /\ [][(pc = "menu" /\ turn'.choice # "item") =>
              inventory' = inventory]_vars
    /\ [][(pc = "menu" /\ get_items_by_type(inventory, "healing") = <<>>) =>
              turn'.choice # "item"]_vars
    /\ [][(pc = "menu" /\ pc' = "loop") =>
              /\ inventory' = inventory
              /\ \A i \in 1..Len(team) :
                     team'[i].current_hp = team[i].current_hp
              /\ opp'.current_hp = opp.current_hp]_vars

\* C18 witness: a Revive was used while the trainer held two Revives and a
\* Rare Candy: one Revive is left and the Rare Candy is still there.
C18_Witness ==
    /\ pc = "check"
    /\ turn.choice = "item"
    /\ item_count(turn.pre.inventory, "Revive") = 2
    /\ item_count(inventory, "Revive") = 1
    /\ item_count(turn.pre.inventory, "Rare Candy") = 1
    /\ item_count(inventory, "Rare Candy") = 1

\* C19: a capture attempt made while the trainer holds a capture device
\* lowers the count of one device by exactly one, whether the creature is
\* caught or breaks free, and changes no other count; declining the attempt,
\* or attempting without a device, changes no count.
C19_DeviceConsumed ==
    /\ [][(/\ pc = "catch"
           /\ turn'.choice = "catch"
           /\ get_items_by_type(inventory, "pokeball") # <<>>) =>
              \E n \in ItemNames :
                  /\ item_database(n).type = "pokeball"
                  /\ item_count(inventory, n) >= 1
                  /\ item_count(inventory', n) = item_count(inventory, n) - 1
                  /\ \A o \in ItemNames \ {n} :
                         item_count(inventory', o) = item_count(inventory, o)]_vars
    /\ [][(/\ pc = "catch"
           /\ \/ turn'.choice # "catch"
              \/ get_items_by_type(inventory, "pokeball") = <<>>) =>
              inventory' = inventory]_vars

\* C19 witness: a capture attempt by a trainer holding two Pokeballs has
\* failed: one Pokeball is left and the Potion is still there.
C19_Witness ==
    /\ pc = "done"
    /\ turn.choice = "catch"
    /\ stats.pokemon_caught = 0
    /\ Len(team) <= 2
    /\ box = <<>>
    /\ item_count(inventory, "Pokeball") = 1
    /\ item_count(inventory, "Potion") >= 1

\* C20 as stated: the capture is decided by one draw against
\* min(1.0, base_catch_rate * ball_modifier * hp_factor * status_bonus / 255),
\* so an attempt whose probability is 1.0 catches the creature.
C20_AsStated ==
    [][(/\ pc = "catch"
        /\ turn'.choice = "catch"
        /\ get_items_by_type(inventory, "pokeball") # <<>>
        /\ LET ball == get_items_by_type(inventory, "pokeball")[1]
           IN  catch_probability(opp, ball)[1] >=
                   catch_probability(opp, ball)[2]) =>
           stats'.pokemon_caught > stats.pokemon_caught]_vars

-----------------------------------------------------------------------------
(* Properties of the capture, checked under SpecCatch *)

\* C21: a capture that succeeds leaves the caught creature at full HP with
\* no status condition and stores it exactly once: at the end of the team
\* when the team had fewer than six members (the box is unchanged), at the
\* end of the box otherwise (the team is unchanged). A capture attempt that
\* fails, or is declined, changes neither the team nor the box.
C21_CaptureStoresOnce ==
    [][pc = "catch" =>
          IF stats'.pokemon_caught > stats.pokemon_caught
          THEN /\ opp'.current_hp = opp'.max_hp
               /\ opp'.status_condition = "none"
               /\ opp'.species = opp.species
               /\ IF Len(team) < max_team_size
                  THEN team' = Append(team, opp') /\ box' = box
                  ELSE box' = Append(box, opp') /\ team' = team
          ELSE team' = team /\ box' = box /\ opp' = opp]_vars

\* C21 witness: a capture succeeded with a full team and the creature, at
\* full HP, is the newest entry of the box.
C21_Witness ==
    /\ pc = "done"
    /\ turn.choice = "catch"
    /\ stats.pokemon_caught > 0
    /\ Len(team) = max_team_size
    /\ Len(box) > 0
    /\ box[Len(box)] = opp
    /\ opp.current_hp = opp.max_hp

\* the creature undamaged with no status, and the same creature at 0 HP
Undamaged(p) == [p EXCEPT !.current_hp = p.max_hp, !.status_condition = "none"]
AtZeroHp(p) == [p EXCEPT !.current_hp = 0, !.status_condition = "none"]

\* C22 as stated: for every catch rate and every capture device the capture
\* probability of the undamaged creature is strictly less than the
\* probability of the same creature at 0 HP.
C22_AsStated ==
    \A d \in CaptureDevices :
        ProbLess(catch_probability_min(Undamaged(opp), d),
                 catch_probability_min(AtZeroHp(opp), d))

\* C22 amended: for every catch rate and every capture device the capture
\* probability of the undamaged creature is never greater than the
\* probability of the same creature at 0 HP; it is strictly less for the
\* Pokeball, the Great Ball and the Ultra Ball, and with the Master Ball
\* (modifier 255) both probabilities are capped at 1.0 and equal.
C22_MonotoneUpToCap ==
    \A d \in CaptureDevices :
        LET full == catch_probability_min(Undamaged(opp), d)
            zero == catch_probability_min(AtZeroHp(opp), d)
        IN  /\ ~ProbLess(zero, full)
            /\ d # "Master Ball" => ProbLess(full, zero)
            /\ d = "Master Ball" =>
                   ProbEqual(full, <<1, 1>>) /\ ProbEqual(zero, <<1, 1>>)
            /\ ProbLess(full, <<1, 1>>) => ProbLess(full, zero)

\* C22 witness: a capture was attempted and succeeded; the creature is now
\* undamaged, its probability with a Pokeball is below the one at 0 HP and
\* its probability with a Master Ball is 1.0.
C22_Witness ==
    /\ pc = "done"
    /\ turn.choice = "catch"
    /\ stats.pokemon_caught > 0
    /\ opp = Undamaged(opp)
    /\ ProbLess(catch_probability_min(opp, "Pokeball"),
                catch_probability_min(AtZeroHp(opp), "Pokeball"))
    /\ ProbEqual(catch_probability_min(opp, "Master Ball"), <<1, 1>>)

\* C28 as stated: pokemon_caught grows by exactly one when a capture
\* succeeds (the creature joins the team or the box) and is unchanged by a
\* failed or declined attempt.
C28_AsStated ==
    [][pc = "catch" =>
          stats'.pokemon_caught =
              stats.pokemon_caught
                  + (IF team' # team \/ box' # box THEN 1 ELSE 0)]_vars

-----------------------------------------------------------------------------
(* Properties of start_battle and its bookkeeping, checked under Spec *)

\* C23: start_battle called when no team member has HP above 0 returns
\* no_pokemon at once: no battle turn is run, and no creature, no inventory
\* entry and no win, loss or capture counter changes.
C23_NoPokemon ==
    /\ [][(pc = "idle" /\ ~has_usable_pokemon(team)) =>
              /\ pc' = "done"
              /\ result' = "no_pokemon"
              /\ battle_turn' = 0
              /\ turn' = NoTurn
              /\ award' = NoAward
              /\ team' = team
              /\ box' = box
              /\ opp' = opp
              /\ inventory' = inventory
              /\ stats' = stats]_vars
    /\ [](result = "no_pokemon" =>
              /\ pc = "done"
              /\ battle_turn = 0
              /\ \A i \in 1..Len(team) : team[i].current_hp = 0
              /\ stats.battles_won = 0
              /\ stats.battles_lost = 0
              /\ stats.pokemon_caught = 0
              /\ stats.items_used = 0)
    /\ [][pc = "done" => pc' = "done"]_vars

\* C23 witness: start_battle has returned no_pokemon for a team of two
\* fainted creatures.
C23_Witness ==
    /\ pc = "done"
    /\ result = "no_pokemon"
    /\ Len(team) = 2
    /\ \A i \in 1..Len(team) : team[i].current_hp = 0

\* C24 as stated: after a forced switch the opponent attacks the creature
\* that was switched in before the player is asked for the next decision.
C24_AsStated ==
    [][(pc = "forced" /\ active' # active) => pc' = "oppturn"]_vars

\* C24 amended: a forced switch ends the iteration. The replacement is not
\* attacked before the player's next decision: the while condition is
\* evaluated next and, unless the turn ceiling ends the battle, the player is
\* asked for an action with every creature as the switch left it. The
\* opponent attacks only after a player action of the same iteration, and
\* the replacement has no protection in that iteration.
C24_ForcedSwitchEndsTurn ==
    /\ [][(pc = "forced" /\ active' # active) =>
              /\ pc' = "loop"
              /\ turn' = NoTurn
              /\ team' = team
              /\ opp' = opp]_vars
    /\ [][pc = "loop" =>
              /\ team' = team
              /\ opp' = opp
              /\ active' = active
              /\ pc' \in {"menu", "post"}
              /\ (pc' = "post") =
                     (\/ team[active].current_hp = 0
                      \/ opp.current_hp = 0
                      \/ battle_turn >= max_turns)]_vars
    /\ [][pc' = "oppturn" =>
              (pc = "check" /\ turn.choice \in {"fight", "item", "switch", "run"})]_vars
    /\ [][pc' = "check" => pc = "menu"]_vars

\* C24 witness: the player is asked for the second decision of the battle;
\* the lead fainted in the first iteration and its replacement, switched in
\* at the forced switch, has not been attacked.
C24_Witness ==
    /\ pc = "menu"
    /\ battle_turn = 2
    /\ active # start_active
    /\ team[start_active].current_hp = 0
    /\ team[active].current_hp = 2
    /\ turn.pre.team = team

\* C25 as stated: the experience of a Victory goes only to the creature that
\* was active when the opponent fainted; in a battle with a switch no other
\* team member's experience or level is changed by the awards of battle_loop
\* and start_battle.
C25_AsStated ==
    [][(pc = "check" \/ pc = "post") =>
          \A i \in 1..Len(team) :
              i # active =>
                  /\ team'[i].experience = team[i].experience
                  /\ team'[i].level = team[i].level]_vars

\* C26 as stated: a creature at 0 HP stays at 0 HP until start_battle
\* returns unless an item is used in that step: no experience award and no
\* level-up raises the HP of a fainted creature.
C26_AsStated ==
    [][\A i \in 1..Len(team) :
           (team[i].current_hp = 0 /\ ~(pc = "menu" /\ turn'.choice = "item")) =>
               team'[i].current_hp = 0]_vars

-----------------------------------------------------------------------------
(* Properties of the battle results, checked under SpecFault *)

\* C27 as stated: battle_loop returns Defeat only when the active creature
\* has fainted, and returns neither Defeat nor Draw when the opponent is at
\* 0 HP and the active creature is above 0 HP, also after a turn that was
\* interrupted by a swallowed fault.
C27_AsStated ==
    pc = "post" =>
        /\ result = "defeat" => team[active].current_hp = 0
        /\ (opp.current_hp = 0 /\ team[active].current_hp > 0) =>
               result \notin {"defeat", "draw"}

\* C29: start_battle adds exactly one to battles_won for a Victory and
\* exactly one to battles_lost for a Defeat; a Draw, a Run and no_pokemon
\* change neither counter, and no other step of the battle changes them.
C29_ResultCounters ==
    /\ [][pc = "post" =>
              /\ stats'.battles_won =
                     stats.battles_won + (IF result = "victory" THEN 1 ELSE 0)
              /\ stats'.battles_lost =
                     stats.battles_lost + (IF result = "defeat" THEN 1 ELSE 0)
              /\ result' = result]_vars
    /\ [][pc # "post" =>
              /\ stats'.battles_won = stats.battles_won
              /\ stats'.battles_lost = stats.battles_lost]_vars
    /\ [](pc = "done" =>
              /\ result \in {"victory", "defeat", "draw", "run", "no_pokemon"}
              /\ stats.battles_won = (IF result = "victory" THEN 1 ELSE 0)
              /\ stats.battles_lost = (IF result = "defeat" THEN 1 ELSE 0))

\* C29 witness: start_battle has returned Draw after the turn ceiling and
\* neither counter has moved.
C29_Witness ==
    /\ pc = "done"
    /\ result = "draw"
    /\ stats.battles_won = 0
    /\ stats.battles_lost = 0

\* C30: whenever the player is asked for a battle action the active creature
\* is a member of the team with HP above 0 and the opponent has HP above 0;
\* the battle starts with the first non-fainted team member as the active
\* creature.
C30_ActiveCanBattle ==
    /\ [](pc = "menu" =>
              /\ active \in 1..Len(team)
              /\ team[active].current_hp > 0
              /\ opp.current_hp > 0)
    /\ [][(pc = "idle" /\ pc' = "loop") =>
              /\ active' \in 1..Len(team)
              /\ team[active'].current_hp > 0
              /\ \A j \in 1..(active' - 1) : team[j].current_hp = 0
              /\ start_active' = active']_vars
    /\ [][pc' = "menu" => (pc = "loop" /\ active' = active)]_vars

\* C30 witness: the player is asked for the first action of a battle whose
\* lead was fainted at the start; the second team member is active.
C30_Witness ==
    /\ pc = "menu"
    /\ battle_turn = 1
    /\ active = 2
    /\ team[1].current_hp = 0
    /\ team[2].current_hp > 0
    /\ opp.current_hp > 0

=============================================================================
